---- MODULE Spec2Model ----
(***************************************************************************)
(* promptbook/core: the DataFrame registry, the pager and the cell /        *)
(* structural editor of src/kernel/python/dataframe_formatter.py and        *)
(* src/kernel/python/dataframe_operations.py.                               *)
(*                                                                          *)
(* A DataFrame is a heap object (Python reference semantics): the registry  *)
(* and the user namespace hold references, so in-place mutation and         *)
(* aliasing are visible.  pandas primitives are modelled by what pandas 2.x *)
(* documents them to do on the value domain below.                          *)
(***************************************************************************)
EXTENDS Integers, Sequences, FiniteSets, TLC

(***************************************************************************)
(* Bounds of the model.                                                     *)
(***************************************************************************)
MaxOps == 3
InitRows == 2
MaxPagerOps == 2
MaxPagerRows == 4

DEFAULT_PAGE_SIZE == 25

(***************************************************************************)
(* Python values.  k is the Python type, v the payload:                     *)
(*   null   None / NaN / NA / NaT                                           *)
(*   int    an int that fits int64                                          *)
(*   bigint an int outside the int64 range                                  *)
(*   float  a finite float, v counts halves (v = 3 is 1.5)                  *)
(*   bigfloat a float whose magnitude exceeds the int64 range (1e30)        *)
(*   bool   v \in {0, 1}                                                    *)
(*   str    v is the text                                                   *)
(*   ts     a pandas Timestamp, v its epoch value                           *)
(***************************************************************************)
None == [k |-> "null", v |-> 0]
PyInt(n) == [k |-> "int", v |-> n]
PyFloat(h) == [k |-> "float", v |-> h]
PyBool(b) == [k |-> "bool", v |-> IF b THEN 1 ELSE 0]
PyStr(s) == [k |-> "str", v |-> s]
Timestamp(n) == [k |-> "ts", v |-> n]
BigInt == [k |-> "bigint", v |-> 0]
BigFloat == [k |-> "bigfloat", v |-> 0]
NaN == [k |-> "nan", v |-> 0]

Raise(e) == [ok |-> FALSE, err |-> e, val |-> None]
Return(x) == [ok |-> TRUE, err |-> "", val |-> x]

\* float(text): the texts the model's inputs use.
ParseFloat(s) ==
    CASE s = "5" -> Return(PyFloat(10))
      [] s = "1" -> Return(PyFloat(2))
      [] s = "1.5" -> Return(PyFloat(3))
      [] s = "1e30" -> Return(BigFloat)
      [] OTHER -> Raise("could not convert string to float")

\* float(value)
ToFloat(x) ==
    CASE x.k = "int" -> Return(PyFloat(2 * x.v))
      [] x.k = "bigint" -> Return(BigFloat)
      [] x.k = "float" -> Return(x)
      [] x.k = "bigfloat" -> Return(x)
      [] x.k = "bool" -> Return(PyFloat(2 * x.v))
      [] x.k = "str" -> ParseFloat(x.v)
      [] OTHER -> Raise("float() argument must be a string or a real number")

\* int(f) of a float: truncation toward zero; Python ints are unbounded.
Truncate(f) ==
    CASE f.k = "bigfloat" -> BigInt
      [] f.v >= 0 -> PyInt(f.v \div 2)
      [] OTHER -> PyInt(-((-f.v) \div 2))

\* str(value)
ToStr(x) ==
    CASE x.k = "str" -> x
      [] x.k = "int" -> PyStr(ToString(x.v))
      [] x.k = "bigint" -> PyStr("1000000000000000019884624838656")
      [] x.k = "float" ->
            PyStr(ToString(Truncate(x).v) \o (IF x.v % 2 = 0 THEN ".0" ELSE ".5"))
      [] x.k = "bigfloat" -> PyStr("1e+30")
      [] x.k = "bool" -> PyStr(IF x.v = 1 THEN "True" ELSE "False")
      [] x.k = "ts" -> PyStr(ToString(x.v) \o "-01-01 00:00:00")
      [] OTHER -> PyStr("None")

\* Timestamp.isoformat()
IsoFormat(x) == PyStr(ToString(x.v) \o "-01-01T00:00:00")

\* value.lower() in ('true', '1', 'yes')
TruthyText(s) == s \in {"true", "True", "TRUE", "1", "yes", "Yes", "YES"}

\* bool(value)
Truthiness(x) ==
    CASE x.k \in {"int", "float", "bool"} -> x.v # 0
      [] x.k = "str" -> x.v # ""
      [] x.k = "null" -> FALSE
      [] OTHER -> TRUE

\* pd.to_datetime(scalar): raises on what it cannot parse.
ToDatetime(x) ==
    CASE x.k = "ts" -> Return(x)
      [] x.k = "int" -> Return(Timestamp(x.v))
      [] x.k = "float" -> Return(Timestamp(Truncate(x).v))
      [] x.k = "str" /\ x.v = "2020-01-01" -> Return(Timestamp(2020))
      [] x.k = "str" -> Raise("Unknown datetime string format")
      [] x.k = "bool" -> Raise("bool is not convertible to datetime")
      [] OTHER -> Raise("Out of bounds nanosecond timestamp")

\* dataframe_operations._convert_value
ConvertValue(value, dtype) ==
    IF value.k = "null" \/ value.k = "nan" THEN Return(None)
    ELSE CASE dtype = "int64" ->
                 LET f == ToFloat(value) IN
                 IF f.ok THEN Return(Truncate(f.val)) ELSE f
           [] dtype = "float64" -> ToFloat(value)
           [] dtype = "bool" ->
                 IF value.k = "str" THEN Return(PyBool(TruthyText(value.v)))
                 ELSE Return(PyBool(Truthiness(value)))
           [] dtype = "datetime64" -> ToDatetime(value)
           [] dtype = "string" \/ dtype = "object" -> Return(ToStr(value))
           [] dtype = "category" -> Return(ToStr(value))
           [] OTHER -> Return(value)

(***************************************************************************)
(* dataframe_formatter.get_column_dtype over the pandas dtype names the    *)
(* model's columns take.                                                    *)
(***************************************************************************)
PandasDtypes ==
    {"int64", "Int64", "float64", "bool", "boolean",
     "datetime64[ns]", "category", "string", "object"}

ContainsInt(dtype_str) == dtype_str \in {"int64", "Int64"}
ContainsFloat(dtype_str) == dtype_str \in {"float64"}
ContainsDatetime(dtype_str) == dtype_str \in {"datetime64[ns]"}

get_column_dtype(dtype_str) ==
    IF ContainsInt(dtype_str) THEN "int64"
    ELSE IF ContainsFloat(dtype_str) THEN "float64"
    ELSE IF dtype_str = "bool" \/ dtype_str = "boolean" THEN "bool"
    ELSE IF ContainsDatetime(dtype_str) THEN "datetime64"
    ELSE IF dtype_str = "category" THEN "category"
    ELSE IF dtype_str \in {"string", "string[python]", "string[pyarrow]"} THEN "string"
    ELSE "object"

(***************************************************************************)
(* A DataFrame: ordered column names, one pandas dtype per column, one row *)
(* label per row (df.index) and the cells, rows[r][c], both 1-based here.  *)
(***************************************************************************)
NRows(df) == Len(df.index)
NCols(df) == Len(df.columns)
Columns(df) == {df.columns[c] : c \in 1..NCols(df)}
RangeIndex(n) == [r \in 1..n |-> r - 1]

\* df.columns.get_loc(column), 1-based; the first match.
get_loc(df, column) ==
    CHOOSE c \in 1..NCols(df) :
        /\ df.columns[c] = column
        /\ \A d \in 1..(c - 1) : df.columns[d] # column

\* The cell as the dtype stores it: a float64 column holds floats.
AsStored(dtype, x) ==
    CASE dtype = "float64" /\ x.k \in {"int", "bool"} -> PyFloat(2 * x.v)
      [] dtype = "float64" /\ x.k = "bigint" -> BigFloat
      [] x.k = "nan" -> None
      [] OTHER -> x

\* The dtype pandas infers for a column built from one scalar.
ScalarDtype(x) ==
    CASE x.k = "int" -> "int64"
      [] x.k \in {"float", "bigfloat", "nan"} -> "float64"
      [] x.k = "bool" -> "bool"
      [] x.k = "ts" -> "datetime64[ns]"
      [] OTHER -> "object"

\* The dtype a column takes to hold a null next to its values.
NullableOf(dtype) ==
    CASE dtype = "int64" -> "float64"
      [] dtype = "bool" -> "object"
      [] OTHER -> dtype

\* The common dtype of two non-empty columns (pandas find_common_type).
CommonDtype(d, e) ==
    CASE d = e -> d
      [] {d, e} = {"Int64", "int64"} -> "Int64"
      [] {d, e} = {"boolean", "bool"} -> "boolean"
      [] {d, e} = {"float64", "int64"} -> "float64"
      [] OTHER -> "object"

\* Python's seq[start:end] on positions 0..n-1, as the set of 1-based positions.
PySlice(n, start, end) ==
    LET norm(i) == IF i < 0 THEN (IF i + n < 0 THEN 0 ELSE i + n)
                   ELSE (IF i > n THEN n ELSE i)
    IN  {r \in 1..n : norm(start) < r /\ r <= norm(end)}

\* The rows of df at an increasing set of positions, in table order.
RECURSIVE TakeRows(_, _, _)
TakeRows(seq, keep, r) ==
    IF r > Len(seq) THEN <<>>
    ELSE (IF r \in keep THEN <<seq[r]>> ELSE <<>>) \o TakeRows(seq, keep, r + 1)

\* A sequence without its c-th element.
DropAt(seq, c) == [i \in 1..(Len(seq) - 1) |-> IF i < c THEN seq[i] ELSE seq[i + 1]]

\* The column of df at position c, as [dtype, vals].
ColumnAt(df, c) == [dtype |-> df.dtypes[c], vals |-> [r \in 1..NRows(df) |-> df.rows[r][c]]]

\* df[column] = series: replaces the column in place, or appends it last.
SetColumn(df, column, col) ==
    IF column \in Columns(df)
    THEN LET c == get_loc(df, column) IN
         [df EXCEPT !.dtypes[c] = col.dtype,
                    !.rows = [r \in 1..NRows(df) |-> [df.rows[r] EXCEPT ![c] = col.vals[r]]]]
    ELSE [df EXCEPT !.columns = Append(df.columns, column),
                    !.dtypes = Append(df.dtypes, col.dtype),
                    !.rows = [r \in 1..NRows(df) |-> Append(df.rows[r], col.vals[r])]]

\* df[column] = scalar: every row takes the scalar.
ScalarColumn(df, x) ==
    [dtype |-> ScalarDtype(x), vals |-> [r \in 1..NRows(df) |-> AsStored(ScalarDtype(x), x)]]

\* pd.to_numeric(., errors='coerce') on one element of a non-numeric column.
ElemNumeric(x) ==
    CASE x.k \in {"int", "float", "bigfloat"} -> x
      [] x.k = "bigint" -> BigFloat
      [] x.k = "bool" -> PyInt(x.v)
      [] x.k = "ts" -> PyInt(x.v)
      [] x.k = "str" ->
            LET f == ParseFloat(x.v) IN
            IF ~f.ok THEN None
            ELSE IF f.val.k = "float" /\ f.val.v % 2 = 0 THEN Truncate(f.val)
            ELSE f.val
      [] OTHER -> None

\* pd.to_numeric(series, errors='coerce')
ToNumericCoerce(col) ==
    IF col.dtype \in {"int64", "Int64", "float64", "bool", "boolean"} THEN col
    ELSE LET e == [r \in 1..Len(col.vals) |-> ElemNumeric(col.vals[r])]
             floaty == \E r \in 1..Len(e) : e[r].k \in {"null", "float", "bigfloat"}
             dtype == IF floaty THEN "float64" ELSE "int64"
         IN  [dtype |-> dtype, vals |-> [r \in 1..Len(e) |-> AsStored(dtype, e[r])]]

\* series.astype('Int64'): a float must equal its integer cast.
AsTypeInt64(col) ==
    LET safe(x) == \/ x.k \in {"null", "int", "bool"}
                   \/ x.k = "float" /\ x.v % 2 = 0
        cast(x) == CASE x.k = "float" -> Truncate(x)
                     [] x.k = "bool" -> PyInt(x.v)
                     [] OTHER -> x
    IN  IF \A r \in 1..Len(col.vals) : safe(col.vals[r])
        THEN Return([dtype |-> "Int64", vals |-> [r \in 1..Len(col.vals) |-> cast(col.vals[r])]])
        ELSE Raise("cannot safely cast non-equivalent float64 to int64")

\* series.astype('boolean'): only nulls, bools and the numbers 0 and 1.
AsTypeBoolean(col) ==
    LET boolLike(x) == \/ x.k \in {"null", "bool"}
                       \/ x.k = "int" /\ x.v \in {0, 1}
                       \/ x.k = "float" /\ x.v \in {0, 2}
        cast(x) == IF x.k = "null" THEN None ELSE PyBool(x.v # 0)
    IN  IF col.dtype # "datetime64[ns]" /\ \A r \in 1..Len(col.vals) : boolLike(col.vals[r])
        THEN Return([dtype |-> "boolean", vals |-> [r \in 1..Len(col.vals) |-> cast(col.vals[r])]])
        ELSE Raise("Need to pass bool-like values")

\* pd.to_datetime(series, errors='coerce'): what does not parse becomes NaT.
ToDatetimeCoerce(col) ==
    LET cast(x) == IF x.k = "bool" \/ ~ToDatetime(x).ok THEN None ELSE ToDatetime(x).val
    IN  IF col.dtype \in {"bool", "boolean"}
        THEN Raise("dtype bool cannot be converted to datetime64[ns]")
        ELSE Return([dtype |-> "datetime64[ns]",
                     vals |-> [r \in 1..Len(col.vals) |-> cast(col.vals[r])]])

\* series.astype('category'), series.astype('string'), series.astype('object')
AsTypeCategory(col) == Return([col EXCEPT !.dtype = "category"])
AsTypeString(col) ==
    Return([dtype |-> "string",
            vals |-> [r \in 1..Len(col.vals) |->
                        IF col.vals[r].k = "null" THEN None ELSE ToStr(col.vals[r])]])
AsTypeObject(col) == Return([col EXCEPT !.dtype = "object"])

\* col_data.apply(lambda x: None if pd.isna(x) else str(x).lower() in (...))
ApplyBoolText(col) ==
    [dtype |-> "object",
     vals |-> [r \in 1..Len(col.vals) |->
                 IF col.vals[r].k = "null" THEN None
                 ELSE PyBool(TruthyText(ToStr(col.vals[r]).v))]]

\* df.iloc[:, c] = x: the assignment reaching every row of the column.
SetCellWholeColumn(df, r, c, x) ==
    Return([df EXCEPT
        !.rows = [q \in 1..NRows(df) |-> [df.rows[q] EXCEPT ![c] = x]]])

\* df.iloc[r, c] = x: the column is upcast when its dtype cannot hold x.
SetCell(df, r, c, x) ==
    LET d == df.dtypes[c]
        e == CASE x.k = "null" -> NullableOf(d)
               [] x.k = "bigint" /\ d = "int64" -> "object"
               [] OTHER -> d
        col == ColumnAt(df, c)
        known == \E q \in 1..NRows(df) : col.vals[q] = x
    IN  IF d = "category" /\ x.k # "null" /\ ~known
        THEN Raise("Cannot setitem on a Categorical with a new category")
        ELSE IF d = "Int64" /\ x.k = "bigint"
        THEN Raise("Python int too large to convert to C long")
        ELSE Return([df EXCEPT
                 !.dtypes[c] = e,
                 !.rows = [q \in 1..NRows(df) |->
                             [df.rows[q] EXCEPT ![c] =
                                 IF q = r THEN AsStored(e, x) ELSE AsStored(e, @)]]])

\* The dtype of a column of pd.concat([df, pd.DataFrame([new_row])]): an
\* empty or all-null side does not take part in the common dtype.
ConcatDtype(d, n, x) ==
    IF n = 0 THEN ScalarDtype(x)
    ELSE IF x.k = "null" THEN NullableOf(d)
    ELSE CommonDtype(d, ScalarDtype(x))

\* pd.concat([df, pd.DataFrame([new_row])], ignore_index=True)
ConcatRow(df, new_row) ==
    LET n == NRows(df)
        dtypes == [c \in 1..NCols(df) |-> ConcatDtype(df.dtypes[c], n, new_row[c])]
    IN  [columns |-> df.columns,
         dtypes |-> dtypes,
         index |-> RangeIndex(n + 1),
         rows |-> [r \in 1..(n + 1) |->
                     [c \in 1..NCols(df) |->
                        AsStored(dtypes[c], IF r <= n THEN df.rows[r][c] ELSE new_row[c])]]]

\* df.drop(df.index[row_index]): drop removes the rows carrying that label.
DropLabel(df, label) ==
    LET keep == {r \in 1..NRows(df) : df.index[r] # label}
    IN  [df EXCEPT !.index = TakeRows(df.index, keep, 1),
                   !.rows = TakeRows(df.rows, keep, 1)]

\* df.reset_index(drop=True)
ResetIndex(df) == [df EXCEPT !.index = RangeIndex(NRows(df))]

\* df.drop(columns=...) dropping the column before the named one as well.
DropColumnAndNeighbour(df, column) ==
    LET keep == {c \in 1..NCols(df) :
                    df.columns[c] # column /\ (c = NCols(df) \/ df.columns[c + 1] # column)}
    IN  [df EXCEPT !.columns = TakeRows(df.columns, keep, 1),
                   !.dtypes = TakeRows(df.dtypes, keep, 1),
                   !.rows = [r \in 1..NRows(df) |-> TakeRows(df.rows[r], keep, 1)]]

\* df.drop(columns=[column])
DropColumn(df, column) ==
    LET keep == {c \in 1..NCols(df) : df.columns[c] # column}
    IN  [df EXCEPT !.columns = TakeRows(df.columns, keep, 1),
                   !.dtypes = TakeRows(df.dtypes, keep, 1),
                   !.rows = [r \in 1..NRows(df) |-> TakeRows(df.rows[r], keep, 1)]]

\* df.rename(columns={column: new_name})
RenameColumns(df, column, new_name) ==
    [df EXCEPT !.columns = [c \in 1..NCols(df) |->
                              IF df.columns[c] = column THEN new_name ELSE df.columns[c]]]

(***************************************************************************)
(* The program state s = [heap, registry, user_ns]:                         *)
(*   heap      the DataFrame objects, addressed by reference 1..Len(heap)   *)
(*   registry  __promptbook_dataframes__: df_id -> [dataframe, var_name]    *)
(*   user_ns   IPython's user namespace: name -> reference (0: unbound)     *)
(* Every function of the program maps s and its arguments to the state     *)
(* after the call and the value returned, [heap, registry, user_ns, res].   *)
(***************************************************************************)
NoMetadata == [columns |-> <<>>, totalRows |-> -1]
NoPagination == [page |-> -1, pageSize |-> -1, totalRows |-> -1, totalPages |-> -1]
NoResult ==
    [success |-> FALSE, raised |-> FALSE, error |-> "", dfId |-> "",
     metadata |-> NoMetadata, data |-> <<>>, pagination |-> NoPagination, removed |-> -1]

\* {'success': False, 'error': error}
Failure(error) == [NoResult EXCEPT !.error = error]
\* {'success': True, 'metadata': metadata}
Success(metadata) == [NoResult EXCEPT !.success = TRUE, !.metadata = metadata]
\* An exception that leaves the function.
Raised(error) == [NoResult EXCEPT !.raised = TRUE, !.error = error]

Out(s, res) == [heap |-> s.heap, registry |-> s.registry, user_ns |-> s.user_ns, res |-> res]

NotFound(df_id) == Failure("DataFrame not found: " \o df_id)

\* _get_entry(df_id) is not None
HasEntry(s, df_id) == df_id \in DOMAIN s.registry

\* get_dataframe: the reference, 0 for None.
get_dataframe(s, df_id) ==
    IF df_id \in DOMAIN s.registry THEN s.registry[df_id].dataframe ELSE 0

\* get_dataframe_var_name
get_dataframe_var_name(s, df_id) ==
    IF df_id \in DOMAIN s.registry THEN s.registry[df_id].var_name ELSE ""

\* register_dataframe, uuid being str(uuid4())[:8]
register_dataframe(s, df, var_name, uuid) ==
    [s EXCEPT !.registry =
        [i \in DOMAIN s.registry \cup {uuid} |->
            IF i = uuid THEN [dataframe |-> df, var_name |-> var_name]
            ELSE s.registry[i]]]

\* _update_user_namespace without the early return on an empty var_name.
update_user_namespace_unnamed(s, df_id, df) ==
    LET var_name == get_dataframe_var_name(s, df_id)
    IN  [n \in DOMAIN s.user_ns \cup {var_name} |->
            IF n = var_name THEN df ELSE s.user_ns[n]]

\* _update_user_namespace: the namespace after the call.
update_user_namespace(s, df_id, df) ==
    LET var_name == get_dataframe_var_name(s, df_id)
    IN  IF var_name = "" THEN s.user_ns
        ELSE [n \in DOMAIN s.user_ns \cup {var_name} |->
                 IF n = var_name THEN df ELSE s.user_ns[n]]

\* _build_metadata
build_metadata(df) ==
    [columns |-> [c \in 1..NCols(df) |->
                    [name |-> df.columns[c],
                     dtype |-> get_column_dtype(df.dtypes[c]),
                     nullable |-> \E r \in 1..NRows(df) : df.rows[r][c].k = "null"]],
     totalRows |-> NRows(df)]

\* math.ceil(a / b), b # 0
Ceil(a, b) == IF b > 0 THEN -((-a) \div b) ELSE -(a \div (-b))
Max(a, b) == IF a >= b THEN a ELSE b
Min(a, b) == IF a <= b THEN a ELSE b

\* The cell conversion of both pagers: null, isoformat(), item(), or as is.
CellJson(val) ==
    IF val.k = "null" THEN None
    ELSE IF val.k = "ts" THEN IsoFormat(val)
    ELSE val

\* get_page's window with the upper clamp of the page left out.
GetPageWindowUnclamped(total_rows, page, page_size) ==
    LET total_pages == Max(1, Ceil(total_rows, page_size))
        pg == Max(0, page)
        start_idx == pg * page_size
        end_idx == Min(start_idx + page_size, total_rows)
    IN  [page |-> pg, total_pages |-> total_pages,
         rows |-> PySlice(total_rows, start_idx, end_idx)]

\* get_page's window: [page, total_pages, the positions of df.iloc[start:end]].
GetPageWindow(total_rows, page, page_size) ==
    LET total_pages == Max(1, Ceil(total_rows, page_size))
        pg == Max(0, Min(page, total_pages - 1))
        start_idx == pg * page_size
        end_idx == Min(start_idx + page_size, total_rows)
    IN  [page |-> pg, total_pages |-> total_pages,
         rows |-> PySlice(total_rows, start_idx, end_idx)]

\* format_dataframe's window, computed by its own copy of the arithmetic.
FormatWindow(total_rows, page, page_size) ==
    LET total_pages == Max(1, Ceil(total_rows, page_size))
        pg == Max(0, Min(page, total_pages - 1))
        start_idx == pg * page_size
        end_idx == Min(start_idx + page_size, total_rows)
    IN  [page |-> pg, total_pages |-> total_pages,
         rows |-> PySlice(total_rows, start_idx, end_idx)]

\* The row dicts of a page: get_page adds '__index__', the row's label.
PageData(df, keep, with_index) ==
    LET row(r) == [index |-> IF with_index THEN df.index[r] ELSE -1,
                   cells |-> [c \in 1..NCols(df) |-> CellJson(df.rows[r][c])]]
    IN  TakeRows([r \in 1..NRows(df) |-> row(r)], keep, 1)

\* get_page
get_page(s, df_id, page, page_size) ==
    LET df == get_dataframe(s, df_id) IN
    IF df = 0 THEN Out(s, NotFound(df_id))
    ELSE IF page_size = 0 THEN Out(s, Raised("ZeroDivisionError: division by zero"))
    ELSE LET total_rows == NRows(s.heap[df])
             w == GetPageWindow(total_rows, page, page_size)
         IN  Out(s, [NoResult EXCEPT
                 !.success = TRUE,
                 !.data = PageData(s.heap[df], w.rows, TRUE),
                 !.pagination = [page |-> w.page, pageSize |-> page_size,
                                 totalRows |-> total_rows, totalPages |-> w.total_pages]])

\* format_dataframe: registers first, then pages.
format_dataframe(s, df, var_name, page, page_size, uuid) ==
    LET s1 == register_dataframe(s, df, var_name, uuid)
        total_rows == NRows(s.heap[df])
    IN  IF page_size = 0 THEN Out(s1, Raised("ZeroDivisionError: division by zero"))
        ELSE LET w == FormatWindow(total_rows, page, page_size)
             IN  Out(s1, [NoResult EXCEPT
                     !.dfId = uuid,
                     !.metadata = build_metadata(s.heap[df]),
                     !.data = PageData(s.heap[df], w.rows, FALSE),
                     !.pagination = [page |-> w.page, pageSize |-> page_size,
                                     totalRows |-> total_rows, totalPages |-> w.total_pages]])

\* The state after entry['dataframe'] = df and _update_user_namespace(df_id, df).
Commit(s, heap, df_id, df) ==
    [heap |-> heap,
     registry |-> [s.registry EXCEPT ![df_id].dataframe = df],
     user_ns |-> update_user_namespace(s, df_id, df)]

\* edit_cell: mutates the registered object in place.
edit_cell(s, df_id, row_index, column, value) ==
    IF ~HasEntry(s, df_id) THEN Out(s, NotFound(df_id))
    ELSE LET ref == s.registry[df_id].dataframe
             df == s.heap[ref]
         IN
         IF row_index < 0 \/ row_index >= NRows(df)
         THEN Out(s, Failure("Row index out of range: " \o ToString(row_index)))
         ELSE IF column \notin Columns(df)
         THEN Out(s, Failure("Column not found: " \o column))
         ELSE LET c == get_loc(df, column)
                  dtype == get_column_dtype(df.dtypes[c])
                  converted_value == ConvertValue(value, dtype)
                  set == IF converted_value.ok
                         THEN SetCell(df, row_index + 1, c, converted_value.val)
                         ELSE converted_value
              IN  IF ~set.ok THEN Out(s, Failure(set.err))
                  ELSE Out(Commit(s, [s.heap EXCEPT ![ref] = set.val], df_id, ref),
                           Success(build_metadata(set.val)))

\* add_row: row_data is [given, items]; given = FALSE is row_data=None.
add_row(s, df_id, row_data) ==
    IF ~HasEntry(s, df_id) THEN Out(s, NotFound(df_id))
    ELSE LET ref == s.registry[df_id].dataframe
             df == s.heap[ref]
             conv == [c \in 1..NCols(df) |->
                        IF row_data.given /\ df.columns[c] \in DOMAIN row_data.items
                        THEN ConvertValue(row_data.items[df.columns[c]],
                                          get_column_dtype(df.dtypes[c]))
                        ELSE Return(None)]
             bad == {c \in 1..NCols(df) : ~conv[c].ok}
         IN  IF bad # {}
             THEN Out(s, Failure(conv[CHOOSE c \in bad : \A d \in bad : c <= d].err))
             ELSE LET new_df == ConcatRow(df, [c \in 1..NCols(df) |-> conv[c].val])
                      new_ref == Len(s.heap) + 1
                  IN  Out(Commit(s, Append(s.heap, new_df), df_id, new_ref),
                          Success(build_metadata(new_df)))

\* delete_row validating the row index before looking the entry up.
delete_row_index_first(s, df_id, row_index) ==
    IF row_index < 0
    THEN Out(s, Failure("Row index out of range: " \o ToString(row_index)))
    ELSE IF ~HasEntry(s, df_id) THEN Out(s, NotFound(df_id))
    ELSE LET ref == s.registry[df_id].dataframe
             df == s.heap[ref]
         IN
         IF row_index >= NRows(df)
         THEN Out(s, Failure("Row index out of range: " \o ToString(row_index)))
         ELSE LET new_df == ResetIndex(DropLabel(df, df.index[row_index + 1]))
                  new_ref == Len(s.heap) + 1
              IN  Out(Commit(s, Append(s.heap, new_df), df_id, new_ref),
                      Success(build_metadata(new_df)))

\* delete_row
delete_row(s, df_id, row_index) ==
    IF ~HasEntry(s, df_id) THEN Out(s, NotFound(df_id))
    ELSE LET ref == s.registry[df_id].dataframe
             df == s.heap[ref]
         IN
         IF row_index < 0 \/ row_index >= NRows(df)
         THEN Out(s, Failure("Row index out of range: " \o ToString(row_index)))
         ELSE LET new_df == ResetIndex(DropLabel(df, df.index[row_index + 1]))
                  new_ref == Len(s.heap) + 1
              IN  Out(Commit(s, Append(s.heap, new_df), df_id, new_ref),
                      Success(build_metadata(new_df)))

\* The cast add_column applies to the new column after assigning it.
AddColumnCast(col, dtype, has_default) ==
    CASE dtype = "int64" /\ has_default -> AsTypeInt64(ToNumericCoerce(col))
      [] dtype = "float64" -> Return(ToNumericCoerce(col))
      [] dtype = "bool" -> AsTypeBoolean(col)
      [] dtype = "datetime64" -> ToDatetimeCoerce(col)
      [] dtype = "category" -> AsTypeCategory(col)
      [] dtype = "string" -> AsTypeString(col)
      [] OTHER -> Return(col)

\* add_column: df[column] = ... mutates the registered object, then the cast.
add_column(s, df_id, column, dtype, default_value) ==
    IF ~HasEntry(s, df_id) THEN Out(s, NotFound(df_id))
    ELSE LET ref == s.registry[df_id].dataframe
             df == s.heap[ref]
         IN
         IF column \in Columns(df)
         THEN Out(s, Failure("Column already exists: " \o column))
         ELSE LET has_default == default_value.k # "null"
                  converted_value == IF has_default THEN ConvertValue(default_value, dtype)
                                     ELSE Return(None)
              IN
              IF ~converted_value.ok THEN Out(s, Failure(converted_value.err))
              ELSE LET assigned == SetColumn(df, column, ScalarColumn(df, converted_value.val))
                       cast == AddColumnCast(ColumnAt(assigned, NCols(assigned)),
                                             dtype, has_default)
                   IN  IF ~cast.ok
                       THEN Out([s EXCEPT !.heap[ref] = assigned], Failure(cast.err))
                       ELSE LET done == SetColumn(assigned, column, cast.val)
                            IN  Out(Commit(s, [s.heap EXCEPT ![ref] = done], df_id, ref),
                                    Success(build_metadata(done)))

\* delete_column
delete_column(s, df_id, column) ==
    IF ~HasEntry(s, df_id) THEN Out(s, NotFound(df_id))
    ELSE LET ref == s.registry[df_id].dataframe
             df == s.heap[ref]
         IN
         IF column \notin Columns(df)
         THEN Out(s, Failure("Column not found: " \o column))
         ELSE LET new_df == DropColumn(df, column)
                  new_ref == Len(s.heap) + 1
              IN  Out(Commit(s, Append(s.heap, new_df), df_id, new_ref),
                      Success(build_metadata(new_df)))

\* rename_column without the check that new_name is free.
rename_column_unchecked(s, df_id, column, new_name) ==
    IF ~HasEntry(s, df_id) THEN Out(s, NotFound(df_id))
    ELSE LET ref == s.registry[df_id].dataframe
             df == s.heap[ref]
         IN
         IF column \notin Columns(df)
         THEN Out(s, Failure("Column not found: " \o column))
         ELSE LET new_df == RenameColumns(df, column, new_name)
                  new_ref == Len(s.heap) + 1
              IN  Out(Commit(s, Append(s.heap, new_df), df_id, new_ref),
                      Success(build_metadata(new_df)))

\* rename_column rejecting every present new_name, the column's own included.
rename_column_strict(s, df_id, column, new_name) ==
    IF ~HasEntry(s, df_id) THEN Out(s, NotFound(df_id))
    ELSE LET ref == s.registry[df_id].dataframe
             df == s.heap[ref]
         IN
         IF column \notin Columns(df)
         THEN Out(s, Failure("Column not found: " \o column))
         ELSE IF new_name \in Columns(df)
         THEN Out(s, Failure("Column already exists: " \o new_name))
         ELSE LET new_df == RenameColumns(df, column, new_name)
                  new_ref == Len(s.heap) + 1
              IN  Out(Commit(s, Append(s.heap, new_df), df_id, new_ref),
                      Success(build_metadata(new_df)))

\* rename_column
rename_column(s, df_id, column, new_name) ==
    IF ~HasEntry(s, df_id) THEN Out(s, NotFound(df_id))
    ELSE LET ref == s.registry[df_id].dataframe
             df == s.heap[ref]
         IN
         IF column \notin Columns(df)
         THEN Out(s, Failure("Column not found: " \o column))
         ELSE IF new_name \in Columns(df) /\ new_name # column
         THEN Out(s, Failure("Column already exists: " \o new_name))
         ELSE LET new_df == RenameColumns(df, column, new_name)
                  new_ref == Len(s.heap) + 1
              IN  Out(Commit(s, Append(s.heap, new_df), df_id, new_ref),
                      Success(build_metadata(new_df)))

valid_types == {"int64", "float64", "string", "bool", "datetime64", "category", "object"}

\* The right-hand side of change_column_type's df[column] = ...
ChangeTypeCast(col, new_type) ==
    CASE new_type = "int64" -> AsTypeInt64(ToNumericCoerce(col))
      [] new_type = "float64" -> Return(ToNumericCoerce(col))
      [] new_type = "string" -> AsTypeString(col)
      [] new_type = "bool" ->
            IF col.dtype = "object" \/ col.dtype = "string"
            THEN AsTypeBoolean(ApplyBoolText(col))
            ELSE AsTypeBoolean(col)
      [] new_type = "datetime64" -> ToDatetimeCoerce(col)
      [] new_type = "category" -> AsTypeCategory(col)
      [] OTHER -> AsTypeObject(col)

\* change_column_type: the cast is computed, then assigned in place.
change_column_type(s, df_id, column, new_type) ==
    IF ~HasEntry(s, df_id) THEN Out(s, NotFound(df_id))
    ELSE LET ref == s.registry[df_id].dataframe
             df == s.heap[ref]
         IN
         IF column \notin Columns(df)
         THEN Out(s, Failure("Column not found: " \o column))
         ELSE IF new_type \notin valid_types
         THEN Out(s, Failure("Invalid type: " \o new_type))
         ELSE LET cast == ChangeTypeCast(ColumnAt(df, get_loc(df, column)), new_type)
              IN  IF ~cast.ok THEN Out(s, Failure(cast.err))
                  ELSE LET done == SetColumn(df, column, cast.val)
                       IN  Out(Commit(s, [s.heap EXCEPT ![ref] = done], df_id, ref),
                               Success(build_metadata(done)))

\* cleanup_registry: clears every entry.
cleanup_registry(s) ==
    Out([s EXCEPT !.registry = [i \in {} |-> 0]],
        [NoResult EXCEPT !.removed = Cardinality(DOMAIN s.registry)])

(***************************************************************************)
(* The state machine.  Beside the program state:                            *)
(*   last    the last call (op, args) and what it returned (res)            *)
(*   issued  every df_id register_dataframe has returned so far             *)
(*   undo    after a successful add_column ("added"): its df_id, column and *)
(*           the table before it; "undone" when the next call is a          *)
(*           successful delete_column of that column; else cleared          *)
(*   nops    the number of calls made                                       *)
(***************************************************************************)
VARIABLES heap, registry, user_ns, last, issued, undo, nops
vars == <<heap, registry, user_ns, last, issued, undo, nops>>

S == [heap |-> heap, registry |-> registry, user_ns |-> user_ns]

\* str(uuid4())[:8]: any of the identifiers, whatever was drawn before.
Ids == {"0a1b2c3d", "deadbeef"}
VarNames == {"df"}

NoArgs == [df_id |-> "", row_index |-> -1, column |-> "", name |-> "", value |-> None,
           page |-> 0, page_size |-> 0, df |-> 0]
NoTable == [columns |-> <<>>, dtypes |-> <<>>, index |-> <<>>, rows |-> <<>>]
NoUndo == [state |-> "none", df_id |-> "", column |-> "", before |-> NoTable]

\* The user's DataFrame when the session starts: columns a (int64) and b (object).
InitCell(r, c) == IF c = 1 THEN PyInt(r) ELSE PyStr(IF r % 2 = 1 THEN "5" ELSE "abc")
InitIndexes(n) == {RangeIndex(n), [r \in 1..n |-> 7], [r \in 1..n |-> r + 9]}
InitTables ==
    {[columns |-> <<"a", "b">>, dtypes |-> <<"int64", "object">>, index |-> ix,
      rows |-> [r \in 1..Len(ix) |-> [c \in 1..2 |-> InitCell(r, c)]]] :
        ix \in UNION {InitIndexes(n) : n \in 0..InitRows}}

Init ==
    /\ heap \in {<<df>> : df \in InitTables}
    /\ registry = [i \in {} |-> 0]
    /\ user_ns = [n \in VarNames |-> 1]
    /\ last = [op |-> "", args |-> NoArgs, res |-> NoResult]
    /\ issued = {}
    /\ undo = NoUndo
    /\ nops = 0

\* The step of one call: out is what the function computed from S.
Step(limit, op, args, out) ==
    /\ nops < limit
    /\ heap' = out.heap
    /\ registry' = out.registry
    /\ user_ns' = out.user_ns
    /\ last' = [op |-> op, args |-> args, res |-> out.res]
    /\ nops' = nops + 1

\* The arguments the calls are made with.
RowArgs == -1..1
ColumnArgs == {"a", "x"}
NewNameArgs == {"a", "b"}
ValueArgs == {PyStr("5"), PyStr("abc")}
DefaultArgs == {None, PyStr("1e30")}
AddDtypeArgs == {"int64", "string"}
NewTypeArgs == {"string", "bool", "complex"}
NoRowData == [given |-> FALSE, items |-> [k \in {} |-> None]]
RowDataArgs ==
    {NoRowData,
     [given |-> TRUE, items |-> [k \in {"a", "zz"} |-> PyStr("5")]],
     [given |-> TRUE, items |-> [k \in {"a"} |-> PyStr("abc")]]}

\* The objects the user can display: those bound in the namespace.
UserRefs == {user_ns[n] : n \in DOMAIN user_ns} \ {0}

FormatCall(limit, names, pages, sizes) ==
    \E df \in UserRefs, var_name \in names, uuid \in Ids,
       page \in pages, page_size \in sizes :
        /\ Step(limit, "format_dataframe",
                [NoArgs EXCEPT !.df = df, !.name = var_name, !.page = page,
                               !.page_size = page_size, !.df_id = uuid],
                format_dataframe(S, df, var_name, page, page_size, uuid))
        /\ issued' = issued \cup {uuid}
        /\ undo' = NoUndo

GetPageCall(limit, pages, sizes) ==
    \E df_id \in Ids, page \in pages, page_size \in sizes :
        /\ Step(limit, "get_page",
                [NoArgs EXCEPT !.df_id = df_id, !.page = page, !.page_size = page_size],
                get_page(S, df_id, page, page_size))
        /\ UNCHANGED issued
        /\ undo' = NoUndo

Format == FormatCall(MaxOps, VarNames \cup {""}, {0}, {DEFAULT_PAGE_SIZE})
GetPage == GetPageCall(MaxOps, {0}, {0, DEFAULT_PAGE_SIZE})

EditCell ==
    \E df_id \in Ids, row_index \in RowArgs, column \in ColumnArgs, value \in ValueArgs :
        /\ Step(MaxOps, "edit_cell",
                [NoArgs EXCEPT !.df_id = df_id, !.row_index = row_index,
                               !.column = column, !.value = value],
                edit_cell(S, df_id, row_index, column, value))
        /\ UNCHANGED issued
        /\ undo' = NoUndo

AddRow ==
    \E df_id \in Ids, row_data \in RowDataArgs :
        /\ Step(MaxOps, "add_row", [NoArgs EXCEPT !.df_id = df_id],
                add_row(S, df_id, row_data))
        /\ UNCHANGED issued
        /\ undo' = NoUndo

DeleteRow ==
    \E df_id \in Ids, row_index \in RowArgs :
        /\ Step(MaxOps, "delete_row", [NoArgs EXCEPT !.df_id = df_id, !.row_index = row_index],
                delete_row(S, df_id, row_index))
        /\ UNCHANGED issued
        /\ undo' = NoUndo

AddColumn ==
    \E df_id \in Ids, column \in ColumnArgs, dtype \in AddDtypeArgs,
       default_value \in DefaultArgs :
        LET out == add_column(S, df_id, column, dtype, default_value) IN
        /\ Step(MaxOps, "add_column",
                [NoArgs EXCEPT !.df_id = df_id, !.column = column, !.name = dtype,
                               !.value = default_value],
                out)
        /\ UNCHANGED issued
        /\ undo' = IF out.res.success
                   THEN [state |-> "added", df_id |-> df_id, column |-> column,
                         before |-> heap[registry[df_id].dataframe]]
                   ELSE NoUndo

DeleteColumn ==
    \E df_id \in Ids, column \in ColumnArgs :
        LET out == delete_column(S, df_id, column) IN
        /\ Step(MaxOps, "delete_column", [NoArgs EXCEPT !.df_id = df_id, !.column = column],
                out)
        /\ UNCHANGED issued
        /\ undo' = IF /\ undo.state = "added" /\ undo.df_id = df_id
                      /\ undo.column = column /\ out.res.success
                   THEN [undo EXCEPT !.state = "undone"]
                   ELSE NoUndo

RenameColumn ==
    \E df_id \in Ids, column \in ColumnArgs, new_name \in NewNameArgs :
        /\ Step(MaxOps, "rename_column",
                [NoArgs EXCEPT !.df_id = df_id, !.column = column, !.name = new_name],
                rename_column(S, df_id, column, new_name))
        /\ UNCHANGED issued
        /\ undo' = NoUndo

ChangeColumnType ==
    \E df_id \in Ids, column \in ColumnArgs, new_type \in NewTypeArgs :
        /\ Step(MaxOps, "change_column_type",
                [NoArgs EXCEPT !.df_id = df_id, !.column = column, !.name = new_type],
                change_column_type(S, df_id, column, new_type))
        /\ UNCHANGED issued
        /\ undo' = NoUndo

CleanupRegistry ==
    /\ Step(MaxOps, "cleanup_registry", NoArgs, cleanup_registry(S))
    /\ UNCHANGED issued
    /\ undo' = NoUndo

Next ==
    \/ Format
    \/ GetPage
    \/ EditCell
    \/ AddRow
    \/ DeleteRow
    \/ AddColumn
    \/ DeleteColumn
    \/ RenameColumn
    \/ ChangeColumnType
    \/ CleanupRegistry

Spec == Init /\ [][Next]_vars

(***************************************************************************)
(* The pager alone, over every page and page size around the table's size. *)
(***************************************************************************)
PagerTables ==
    {[columns |-> <<"a", "b">>, dtypes |-> <<"int64", "object">>, index |-> RangeIndex(n),
      rows |-> [r \in 1..n |-> [c \in 1..2 |-> InitCell(r, c)]]] : n \in 0..MaxPagerRows}
PagerPages == -1..(MaxPagerRows + 1)
PagerSizes == -1..(MaxPagerRows + 1)

InitPager ==
    /\ heap \in {<<df>> : df \in PagerTables}
    /\ registry = [i \in {} |-> 0]
    /\ user_ns = [n \in VarNames |-> 1]
    /\ last = [op |-> "", args |-> NoArgs, res |-> NoResult]
    /\ issued = {}
    /\ undo = NoUndo
    /\ nops = 0

PagerFormat == FormatCall(MaxPagerOps, {"df"}, PagerPages, PagerSizes)
PagerGetPage == GetPageCall(MaxPagerOps, PagerPages, PagerSizes)

NextPager ==
    \/ PagerFormat
    \/ PagerGetPage

SpecPager == InitPager /\ [][NextPager]_vars

(***************************************************************************)
(* What the claims read from a state.                                       *)
(***************************************************************************)
\* The table stored under df_id.
TableOf(df_id) == heap[registry[df_id].dataframe]

\* The table the last pager call paged.
PagedTable ==
    IF last.op = "format_dataframe" THEN heap[last.args.df] ELSE TableOf(last.args.df_id)

\* The last call was a pager call that found its table.
Paged ==
    \/ last.op = "format_dataframe"
    \/ last.op = "get_page" /\ last.args.df_id \in DOMAIN registry

\* max(1, ceil(n / page_size)) for page_size > 0: the least count of pages
\* of page_size rows that hold n rows, and at least one.
PagesFor(n, page_size) ==
    LET k == CHOOSE k \in 0..n : k * page_size >= n /\ \A j \in 0..(k - 1) : j * page_size < n
    IN  IF k < 1 THEN 1 ELSE k

Clamp(x, lo, hi) == IF x < lo THEN lo ELSE IF x > hi THEN hi ELSE x

\* res is the page of df for (page, page_size) that the pagination rule gives.
IsPageOf(res, df, page, page_size) ==
    LET n == NRows(df)
        total_pages == PagesFor(n, page_size)
        effective == Clamp(page, 0, total_pages - 1)
        first == effective * page_size
        stop == IF first + page_size < n THEN first + page_size ELSE n
    IN  /\ ~res.raised
        /\ res.pagination.totalPages = total_pages
        /\ res.pagination.page = effective
        /\ res.pagination.totalRows = n
        /\ Len(res.data) = stop - first
        /\ \A i \in 1..(stop - first) :
              res.data[i].cells = [c \in 1..NCols(df) |-> CellJson(df.rows[first + i][c])]

\* C1: for every page_size > 0 and every integer page, format_dataframe and
\* get_page report totalPages = max(1, ceil(total_rows / page_size)), the page
\* clamped into [0, totalPages - 1], and exactly the rows of that page's window
\* in table order.
C1_PageWindow ==
    (Paged /\ last.args.page_size > 0)
        => IsPageOf(last.res, PagedTable, last.args.page, last.args.page_size)

\* A get_page past the last page of a table of several pages, with rows returned.
C1_Witness ==
    /\ last.op = "get_page"
    /\ last.res.success
    /\ last.args.page_size > 0
    /\ last.res.pagination.totalPages > 1
    /\ last.args.page >= last.res.pagination.totalPages
    /\ Len(last.res.data) > 0
    /\ Len(last.res.data) < last.args.page_size

\* C2: a page_size <= 0 is rejected with a structured failure or clamped to
\* the default of 25: no division error, no window computed from it.
C2_PageSizeRejectedOrClamped ==
    (Paged /\ last.args.page_size <= 0)
        => \/ ~last.res.raised /\ ~last.res.success /\ last.res.error # ""
           \/ /\ last.res.pagination.pageSize = DEFAULT_PAGE_SIZE
              /\ IsPageOf(last.res, PagedTable, last.args.page, DEFAULT_PAGE_SIZE)

EditorOps ==
    {"edit_cell", "add_row", "delete_row", "add_column", "delete_column",
     "rename_column", "change_column_type"}

\* Python's x == y on cells: 1 == 1.0.
IsNumber(x) == x.k \in {"int", "float", "bool"}
Halves(x) == IF x.k = "float" THEN x.v ELSE 2 * x.v
PyEq(x, y) ==
    \/ x = y
    \/ IsNumber(x) /\ IsNumber(y) /\ Halves(x) = Halves(y)
    \/ {x.k, y.k} = {"bigint", "bigfloat"}
SameRow(p, q) == Len(p) = Len(q) /\ \A c \in 1..Len(p) : PyEq(p[c], q[c])

\* C3: an editor operation that returns success=false leaves the table stored
\* under that id as it was before the call.
C3_FailureLeavesTable ==
    [][(/\ last'.op \in EditorOps
        /\ ~last'.res.success
        /\ last'.args.df_id \in DOMAIN registry)
          => heap'[registry'[last'.args.df_id].dataframe]
                = heap[registry[last'.args.df_id].dataframe]]_vars

\* C4: an editor operation or get_page on an id that is not registered returns
\* the not-found failure before any other validation, and changes nothing.
C4_NotFoundFirst ==
    [][(/\ last'.op \in EditorOps \cup {"get_page"}
        /\ last'.args.df_id \notin DOMAIN registry)
          => /\ ~last'.res.success
             /\ ~last'.res.raised
             /\ last'.res.error = "DataFrame not found: " \o last'.args.df_id
             /\ registry' = registry
             /\ heap' = heap
             /\ user_ns' = user_ns]_vars

\* An edit_cell on an unregistered id whose row index and column are invalid
\* too, while another id is registered.
C4_Witness ==
    /\ last.op = "edit_cell"
    /\ last.args.df_id \notin DOMAIN registry
    /\ DOMAIN registry # {}
    /\ last.args.row_index < 0
    /\ \A i \in DOMAIN registry : last.args.column \notin Columns(TableOf(i))
    /\ last.res.error = "DataFrame not found: " \o last.args.df_id

\* C5: add_row appends one row last and keeps the others; delete_row(i) with i
\* in range removes exactly the row at position i and renumbers the rest;
\* delete_row with i out of range fails with the row-index error.
C5_RowCount ==
    [][last'.args.df_id \in DOMAIN registry =>
         LET T == heap[registry[last'.args.df_id].dataframe]
             U == heap'[registry'[last'.args.df_id].dataframe]
             i == last'.args.row_index
         IN  /\ (last'.op = "add_row" /\ last'.res.success)
                   => /\ NRows(U) = NRows(T) + 1
                      /\ \A r \in 1..NRows(T) : SameRow(U.rows[r], T.rows[r])
             /\ (last'.op = "delete_row" /\ 0 <= i /\ i < NRows(T))
                   => /\ last'.res.success
                      /\ NRows(U) = NRows(T) - 1
                      /\ U.index = RangeIndex(NRows(U))
                      /\ \A r \in 1..NRows(U) :
                            U.rows[r] = T.rows[IF r <= i THEN r ELSE r + 1]
             /\ (last'.op = "delete_row" /\ ~(0 <= i /\ i < NRows(T)))
                   => /\ ~last'.res.success
                      /\ last'.res.error = "Row index out of range: " \o ToString(i)]_vars

\* C6: a successful add_column(id, c, ...) followed by delete_column(id, c)
\* leaves the table with the original columns in the original order and the
\* original rows and cells.
C6_AddThenDeleteRestores ==
    undo.state = "undone"
        => /\ undo.df_id \in DOMAIN registry
           /\ TableOf(undo.df_id).columns = undo.before.columns
           /\ TableOf(undo.df_id).rows = undo.before.rows
           /\ TableOf(undo.df_id).index = undo.before.index
           /\ TableOf(undo.df_id).dtypes = undo.before.dtypes

\* A column added to a table with rows, then deleted by the next call.
C6_Witness ==
    /\ undo.state = "undone"
    /\ last.op = "delete_column"
    /\ NRows(undo.before) > 0
    /\ undo.column \notin Columns(undo.before)

UniqueColumns(df) ==
    \A c, d \in 1..NCols(df) : c # d => df.columns[c] # df.columns[d]

\* C7: the column names of every registered table stay pairwise distinct:
\* add_column rejects a present name, rename_column rejects a present new_name
\* that differs from the renamed column, the other operations add no column.
C7_ColumnNamesUnique ==
    /\ [](\A i \in DOMAIN registry : UniqueColumns(TableOf(i)))
    /\ [][last'.args.df_id \in DOMAIN registry =>
            LET T == heap[registry[last'.args.df_id].dataframe]
                U == heap'[registry'[last'.args.df_id].dataframe]
            IN  /\ (last'.op = "add_column" /\ last'.args.column \in Columns(T))
                      => /\ ~last'.res.success
                         /\ last'.res.error = "Column already exists: " \o last'.args.column
                /\ (/\ last'.op = "rename_column"
                    /\ last'.args.name \in Columns(T)
                    /\ last'.args.name # last'.args.column)
                      => ~last'.res.success
                /\ last'.op \in {"add_row", "delete_row", "delete_column", "edit_cell",
                                 "change_column_type"}
                      => Columns(U) \subseteq Columns(T)]_vars

\* rename_column rejected a new name that another column of the table carries.
C7_Witness ==
    /\ last.op = "rename_column"
    /\ last.args.df_id \in DOMAIN registry
    /\ last.args.column # last.args.name
    /\ {last.args.column, last.args.name} \subseteq Columns(TableOf(last.args.df_id))
    /\ last.res.error = "Column already exists: " \o last.args.name

\* C8: rename_column(id, a, a) on an existing column a succeeds and changes
\* neither the table's columns, their order and types, its rows and cells, nor
\* the metadata.
C8_RenameToSelf ==
    [][(/\ last'.op = "rename_column"
        /\ last'.args.df_id \in DOMAIN registry
        /\ last'.args.name = last'.args.column
        /\ last'.args.column \in Columns(heap[registry[last'.args.df_id].dataframe]))
          => /\ last'.res.success
             /\ heap'[registry'[last'.args.df_id].dataframe]
                   = heap[registry[last'.args.df_id].dataframe]
             /\ last'.res.metadata
                   = build_metadata(heap[registry[last'.args.df_id].dataframe])]_vars

\* rename_column(id, "a", "a") on a table with rows that has column a.
C8_Witness ==
    /\ last.op = "rename_column"
    /\ last.args.name = last.args.column
    /\ last.res.success
    /\ last.res.metadata.totalRows > 0
    /\ last.args.column \in Columns(TableOf(last.args.df_id))

\* C9: register mints a fresh identifier on every call: never one that is in
\* the registry, never one issued earlier in the session.
C9_FreshIdentifier ==
    [][last'.op = "format_dataframe" =>
         /\ last'.res.dfId \notin DOMAIN registry
         /\ last'.res.dfId \notin issued]_vars

\* C10: a successful edit through one id leaves the table seen through every
\* other id unchanged (each entry owns its table).
C10_EditsAreLocal ==
    [][(last'.op \in EditorOps /\ last'.res.success) =>
         \A j \in DOMAIN registry \ {last'.args.df_id} :
            heap'[registry'[j].dataframe] = heap[registry[j].dataframe]]_vars

C12_IndexIsPosition ==
    (last.op = "get_page" /\ last.res.success)
        => LET first == last.res.pagination.page * last.res.pagination.pageSize
           IN  \A i \in 1..Len(last.res.data) : last.res.data[i].index = first + i - 1

\* C13: a successful add_column(id, c, dtype, default_value) appends c as the
\* last column and leaves the other columns, the rows and their labels as they
\* were; every row holds the default coerced to dtype in c, null without a
\* default; the metadata returned lists c last with canonical type dtype.
C13_AddColumnCoerces ==
    [][(last'.op = "add_column" /\ last'.res.success) =>
         LET id == last'.args.df_id
             T == heap[registry[id].dataframe]
             U == heap'[registry'[id].dataframe]
             n == NCols(T)
             dtype == last'.args.name
             default_value == last'.args.value
             coerced == IF default_value.k = "null" THEN None
                        ELSE ConvertValue(default_value, dtype).val
         IN  /\ U.columns = Append(T.columns, last'.args.column)
             /\ U.index = T.index
             /\ \A c \in 1..n : U.dtypes[c] = T.dtypes[c]
             /\ \A r \in 1..NRows(T) :
                   /\ \A c \in 1..n : U.rows[r][c] = T.rows[r][c]
                   /\ PyEq(U.rows[r][n + 1], coerced)
             /\ Len(last'.res.metadata.columns) = n + 1
             /\ last'.res.metadata.columns[n + 1].name = last'.args.column
             /\ last'.res.metadata.columns[n + 1].dtype = dtype]_vars

\* C14: a successful edit_cell(id, row_index, column, value) with row_index in
\* [0, total_rows) and an existing column sets the cell at (row_index, column)
\* to the value coerced to the column's canonical type and leaves every other
\* cell, the rows, their labels and the columns as they were, in the same
\* table object; with row_index out of range or an unknown column the call
\* fails and changes nothing.
C14_EditCellOneCell ==
    [][(last'.op = "edit_cell" /\ last'.args.df_id \in DOMAIN registry) =>
         LET id == last'.args.df_id
             T == heap[registry[id].dataframe]
             U == heap'[registry'[id].dataframe]
             i == last'.args.row_index
             valid == 0 <= i /\ i < NRows(T) /\ last'.args.column \in Columns(T)
         IN  /\ (valid /\ last'.res.success) =>
                   LET c == CHOOSE c \in 1..NCols(T) : T.columns[c] = last'.args.column
                       coerced == ConvertValue(last'.args.value,
                                               get_column_dtype(T.dtypes[c])).val
                   IN  /\ registry' = registry
                       /\ Len(heap') = Len(heap)
                       /\ \A q \in 1..Len(heap) :
                             q # registry[id].dataframe => heap'[q] = heap[q]
                       /\ U.columns = T.columns
                       /\ U.index = T.index
                       /\ PyEq(U.rows[i + 1][c], coerced)
                       /\ \A r \in 1..NRows(T), k \in 1..NCols(T) :
                             <<r, k>> # <<i + 1, c>> => PyEq(U.rows[r][k], T.rows[r][k])
             /\ ~valid =>
                   /\ ~last'.res.success
                   /\ heap' = heap
                   /\ registry' = registry
                   /\ user_ns' = user_ns]_vars

\* edit_cell(id, r, "a", "5") on a two-row table: the cell holds the integer 5,
\* the other row keeps its own value, the entry still holds the user's object.
C14_Witness ==
    /\ last.op = "edit_cell"
    /\ last.res.success
    /\ last.args.df_id \in DOMAIN registry
    /\ last.args.column = "a"
    /\ last.args.value = PyStr("5")
    /\ registry[last.args.df_id].dataframe = 1
    /\ NRows(TableOf(last.args.df_id)) = 2
    /\ TableOf(last.args.df_id).columns[1] = "a"
    /\ TableOf(last.args.df_id).rows[last.args.row_index + 1][1] = PyInt(5)
    /\ \E r \in 1..2 : TableOf(last.args.df_id).rows[r][1] # PyInt(5)
====
